---- MODULE Spec2Model ----
(***************************************************************************)
(* Date-sharded GDELT ingestion pipeline: the daily orchestrator           *)
(* (db.ipynb), the day processor and archive reader (gdelt_loader) and the *)
(* deduplicating batch writer with its shard router (mongo.ipynb).         *)
(*                                                                         *)
(* Texts are sequences of one-character strings.  A JSON field of a record *)
(* is [k, v]: k = "absent" (no such key), "null" (JSON null) or "str".     *)
(* A timestamp is [day, sec], day counted from 2024-01-01 = 1.             *)
(***************************************************************************)
EXTENDS Integers, Sequences, FiniteSets, TLC

(* ---------------------------- bounds ----------------------------------- *)
\* longest date range of a run, in days
MaxSpan == 2
\* most archives listed for one day
MaxFiles == 2
\* last position of a write that the store may reject for a reason other
\* than an id collision
MaxRejectPos == 1
\* most lines of an archive handed directly to the reader
MaxLines == 3

(* ------------------------ program constants ---------------------------- *)
BATCH_SIZE == 500
RETRIES_FourMutant == 3 + 1
RETRIES == 3
HALT_MB == 490
MB == 1024 * 1024

\* day numbers of the calendar dates in CLUSTERS
D_0101 == 1
D_0301 == 61
D_0302 == 62
D_0426 == 117
D_0427 == 118
D_0630 == 182
LAST_SEC == 86399
\* first and last day of the range of the main entry point
D_0111 == 11
D_1031 == 305

Ts(d, s) == [day |-> d, sec |-> s]

TsLE_StrictMutant(a, b) == a.day < b.day \/ (a.day = b.day /\ a.sec < b.sec)

TsLE(a, b) == a.day < b.day \/ (a.day = b.day /\ a.sec <= b.sec)

ClusterNames == <<"cluster1", "cluster2", "cluster3">>

CLUSTERS_MidnightEndMutant ==
  [cluster1 |-> [start_date |-> Ts(D_0101, 0), end_date |-> Ts(D_0301, 0)],
   cluster2 |-> [start_date |-> Ts(D_0302, 0), end_date |-> Ts(D_0426, 0)],
   cluster3 |-> [start_date |-> Ts(D_0427, 0), end_date |-> Ts(D_0630, 0)]]

CLUSTERS ==
  [cluster1 |-> [start_date |-> Ts(D_0101, 0), end_date |-> Ts(D_0301, LAST_SEC)],
   cluster2 |-> [start_date |-> Ts(D_0302, 0), end_date |-> Ts(D_0426, LAST_SEC)],
   cluster3 |-> [start_date |-> Ts(D_0427, 0), end_date |-> Ts(D_0630, LAST_SEC)]]

InWindow(c, t) == TsLE(CLUSTERS[c].start_date, t) /\ TsLE(t, CLUSTERS[c].end_date)

\* the cluster whose client get_client_for_date returns for a parsed timestamp
get_client_for_date(t) ==
  IF \E i \in 1..Len(ClusterNames) : InWindow(ClusterNames[i], t)
  THEN ClusterNames[CHOOSE i \in 1..Len(ClusterNames) :
                      /\ InWindow(ClusterNames[i], t)
                      /\ \A j \in 1..(i-1) : ~InWindow(ClusterNames[j], t)]
  ELSE "cluster1"

(* ------------------------------ texts ---------------------------------- *)
UpperCs == <<"A","B","C","D","E","F","G","H","I","J","K","L","M",
             "N","O","P","Q","R","S","T","U","V","W","X","Y","Z">>
LowerCs == <<"a","b","c","d","e","f","g","h","i","j","k","l","m",
             "n","o","p","q","r","s","t","u","v","w","x","y","z">>

lowerChar(c) ==
  IF \E i \in 1..26 : UpperCs[i] = c
  THEN LowerCs[CHOOSE i \in 1..26 : UpperCs[i] = c]
  ELSE c

lower(t) == [i \in 1..Len(t) |-> lowerChar(t[i])]

\* Python's `kw in text` on strings
Contains(kw, t) ==
  \E i \in 1..(Len(t) - Len(kw) + 1) : SubSeq(t, i, i + Len(kw) - 1) = kw

KEYWORDS == << <<"t","e","s","l","a">>, <<"a","p","p","l","e">>,
               <<"g","o","o","g","l","e">>, <<"n","v","i","d","i","a">>,
               <<"m","i","c","r","o","s","o","f","t">> >>

ENGLISH == <<"E","N","G","L","I","S","H">>

Absent == [k |-> "absent", v |-> <<>>]
Null == [k |-> "null", v |-> <<>>]
Str(t) == [k |-> "str", v |-> t]

\* a date field: k = "absent", "null", "ts" (well-formed) or "bad" (a string
\* that strptime rejects)
NoDate == [k |-> "absent", t |-> Ts(0, 0)]
BadDate == [k |-> "bad", t |-> Ts(0, 0)]
DateAt(d, s) == [k |-> "ts", t |-> Ts(d, s)]

\* get_client_for_date of db.ipynb: the same scan over CLUSTERS.values()
RECURSIVE db_scan(_, _)
db_scan(i, t) ==
  IF i > Len(ClusterNames) THEN "cluster1"
  ELSE IF InWindow(ClusterNames[i], t) THEN ClusterNames[i]
  ELSE db_scan(i + 1, t)

db_get_client_for_date(t) == db_scan(1, t)

(* --------------------------- insert_articles --------------------------- *)
\* article.get(f, "") : the default applies only when the key is missing
GetOrEmpty_NoDefaultMutant(f) == f

GetOrEmpty(f) == IF f.k = "absent" THEN Str(<<>>) ELSE f

\* Python truthiness of article.get(f)
Truthy(f) == f.k = "str" /\ f.v # <<>>

\* article.get("lang") != "ENGLISH"
LangRejected(article) == ~(article.lang.k = "str" /\ article.lang.v = ENGLISH)

\* .lower() on None raises AttributeError
LowerRaises(article) ==
  /\ ~LangRejected(article)
  /\ \/ GetOrEmpty(article.title).k # "str"
     \/ GetOrEmpty(article.url).k # "str"

KeywordMatch(article) ==
  LET title == lower(GetOrEmpty(article.title).v)
      url == lower(GetOrEmpty(article.url).v)
  IN \E i \in 1..Len(KEYWORDS) :
        Contains(KEYWORDS[i], title) \/ Contains(KEYWORDS[i], url)

Passes(article) == ~LangRejected(article) /\ KeywordMatch(article)

\* str(article)
Serialized(article) ==
  <<"{">> \o article.lang.v \o <<",">> \o article.title.v \o <<",">>
          \o article.url.v \o <<"}">>

url_or_title_SwappedMutant(article) ==
  IF Truthy(article.title) THEN article.title.v
  ELSE IF Truthy(article.url) THEN article.url.v
  ELSE Serialized(article)

\* article.get("url") or article.get("title") or str(article)
url_or_title(article) ==
  IF Truthy(article.url) THEN article.url.v
  ELSE IF Truthy(article.title) THEN article.title.v
  ELSE Serialized(article)

\* hashlib.md5(...).hexdigest(): a digest determined by the hashed text
md5(t) == <<"md5">> \o t

MakeDoc(article) ==
  [_id |-> md5(url_or_title(article)),
   date |-> article.date,
   title |-> article.title,
   url |-> article.url,
   lang |-> article.lang,
   docembed |-> IF article.docembed.k = "absent" THEN Str(<<>>) ELSE article.docembed]

\* the preparation loop raises at the first article whose title or url is null
PrepareRaises(articles) == \E i \in 1..Len(articles) : LowerRaises(articles[i])

Prepare(articles) ==
  LET kept == SelectSeq(articles, Passes)
  IN [i \in 1..Len(kept) |-> MakeDoc(kept[i])]

(* ------------------------------ the store ------------------------------ *)
Ids(docs) == {d._id : d \in docs}

\* collection.insert_many(documents, ordered=False) against the documents
\* `stored` of one shard; `rej` are the positions the server rejects for a
\* reason other than an id collision.  Position i is written when it is not
\* rejected and its _id is neither stored nor written by an earlier position.
Written_OrderedMutant(stored, documents, rej) ==
  {i \in 1..Len(documents) :
     \A h \in 1..i :
       /\ h \notin rej
       /\ documents[h]._id \notin Ids(stored)
       /\ \A j \in 1..(h-1) : documents[j]._id # documents[h]._id}

Written_FreshIdMutant(stored, documents, rej) ==
  {i \in 1..Len(documents) : i \notin rej}

Written(stored, documents, rej) ==
  {i \in 1..Len(documents) :
     /\ i \notin rej
     /\ documents[i]._id \notin Ids(stored)
     /\ \A j \in 1..(i-1) : j \in rej \/ documents[j]._id # documents[i]._id}

\* positions answered with a duplicate-key write error (code 11000)
DupKeyErrors(stored, documents, rej) ==
  (1..Len(documents)) \ (rej \cup Written(stored, documents, rej))

StoredAfter(stored, documents, rej) ==
  stored \cup {documents[i] : i \in Written(stored, documents, rej)}

\* bwe.details['nInserted'] or len(result.inserted_ids)
NInserted(stored, documents, rej) == Cardinality(Written(stored, documents, rej))

WriteErrors_DupKeyOnlyMutant(stored, documents, rej) ==
  DupKeyErrors(stored, documents, rej)

\* bwe.details['writeErrors']: one entry per position that was not written
WriteErrors(stored, documents, rej) ==
  (1..Len(documents)) \ Written(stored, documents, rej)

\* duplicate_count = len(bwe.details['writeErrors']); 0 when nothing is rejected
duplicate_count_of(stored, documents, rej) ==
  Cardinality(WriteErrors(stored, documents, rej))

(* ----------------------------- the inputs ------------------------------ *)
T_tesla == <<"T","e","s","l","a">>
T_apple == <<"a","p","p","l","e">>
T_nvidia == <<"N","V","I","D","I","A">>
T_google == <<"g","o","o","g","l","e">>

Rec(lang, title, url, date, docembed) ==
  [lang |-> lang, title |-> title, url |-> url, date |-> date, docembed |-> docembed]

R_tesla(d) == Rec(Str(ENGLISH), Str(T_tesla), Str(<<"u","1">>), DateAt(d, 0), Str(<<"e">>))
R_apple(d) == Rec(Str(ENGLISH), Str(<<"x">>), Str(T_apple), DateAt(d, LAST_SEC), Absent)
\* the url of R_apple under another title
R_apple2(d) == Rec(Str(ENGLISH), Str(T_tesla), Str(T_apple), DateAt(d, 0), Str(<<"e">>))
R_nourl(d) == Rec(Str(ENGLISH), Str(T_nvidia), Absent, DateAt(d, 0), Null)
R_french(d) == Rec(Str(<<"F","R","E","N","C","H">>), Str(T_tesla), Str(T_apple), DateAt(d, 0), Absent)
R_nokw(d) == Rec(Str(ENGLISH), Str(<<"x">>), Str(<<"u","2">>), DateAt(d, 0), Absent)
R_nulltitle(d) == Rec(Str(ENGLISH), Null, Str(T_apple), DateAt(d, 0), Absent)
R_nodate(d) == Rec(Str(ENGLISH), Str(T_tesla), Str(<<"u","3">>), NoDate, Absent)
R_baddate(d) == Rec(Str(ENGLISH), Str(T_tesla), Str(<<"u","4">>), BadDate, Absent)
\* dated after the last window
R_late(d) == Rec(Str(ENGLISH), Str(<<"x">>), Str(T_google), DateAt(D_0630 + 1, 0), Absent)

\* one line of the decompressed archive: the bytes of a JSON object, of text
\* that json.loads rejects, or of whitespace only; enc = "invalid" when the
\* bytes hold a sequence that is not UTF-8 (inside the title of an object)
Json(r) == [kind |-> "json", enc |-> "utf8", rec |-> r]
BadLine == [kind |-> "bad", enc |-> "utf8", rec |-> R_nokw(0)]
BlankLine == [kind |-> "blank", enc |-> "utf8", rec |-> R_nokw(0)]
Mangled(r) == [kind |-> "json", enc |-> "invalid", rec |-> r]
MangledBad == [kind |-> "bad", enc |-> "invalid", rec |-> R_nokw(0)]

BigFile(d) == [i \in 1..BATCH_SIZE |-> Json(R_tesla(d))]

\* the archive called `name` as the bucket holds it for day d
Archive(name, d) ==
  CASE name = "three_and_bad" ->
         <<Json(R_tesla(d)), BadLine, Json(R_apple(d)), Json(R_nourl(d))>>
    [] name = "two_repeats" -> <<Json(R_apple2(d)), Json(R_tesla(d))>>
    [] name = "one" -> <<Json(R_tesla(d))>>
    [] name = "filtered" -> <<Json(R_french(d)), BlankLine, Json(R_nokw(d))>>
    [] name = "late_first" -> <<Json(R_late(d)), Json(R_tesla(d))>>
    [] name = "null_title" -> <<Json(R_nulltitle(d))>>
    [] name = "no_date" -> <<Json(R_nodate(d))>>
    [] name = "bad_date" -> <<Json(R_baddate(d)), Json(R_tesla(d))>>
    [] name = "big" -> BigFile(d)

\* archives offered to a run over a single day
RichBucket == {"three_and_bad", "two_repeats", "one", "filtered", "late_first",
               "null_title", "no_date", "bad_date", "big"}

\* archives offered to a run over several days
LeanBucket == {"three_and_bad", "filtered", "null_title"}

\* dbstats storageSize, in bytes
Readings == {489 * MB, 490 * MB, 491 * MB}

StartDays == {D_0301, D_0630}

(* ----------------------- list_gz_files_for_day -------------------------- *)
\* most keys that one list_objects_v2 response holds
S3_MAX_KEYS == 1000

\* the object key "<day>/<n>.<ext>", n written with a fixed number of digits
Key(d, n, ext) == [day |-> d, n |-> n, ext |-> ext]

\* "gz" < "json" as texts
ExtLE(a, b) == a = "gz" \/ b = "json"

\* lexicographic order of keys
KeyLE(a, b) ==
  \/ a.day < b.day
  \/ a.day = b.day /\ a.n < b.n
  \/ a.day = b.day /\ a.n = b.n /\ ExtLE(a.ext, b.ext)

UnderPrefix(k, date_str) == k.day = date_str

EndsWithGz(k) == k.ext = "gz"

\* s3.list_objects_v2(Bucket, Prefix): the first S3_MAX_KEYS keys under the
\* prefix, in the ascending order in which the bucket lists its keys
list_objects_v2(objects, date_str) ==
  LET under == SelectSeq(objects, LAMBDA k : UnderPrefix(k, date_str))
  IN IF Len(under) <= S3_MAX_KEYS THEN under ELSE SubSeq(under, 1, S3_MAX_KEYS)

\* sorted(files)
RECURSIVE sorted(_)
sorted(files) ==
  IF Len(files) <= 1 THEN files
  ELSE LET m == (Len(files) + 1) \div 2
           others == SubSeq(files, 1, m - 1) \o SubSeq(files, m + 1, Len(files))
           before == SelectSeq(others, LAMBDA k : ~KeyLE(files[m], k))
           after == SelectSeq(others, LAMBDA k : KeyLE(files[m], k))
       IN sorted(before) \o <<files[m]>> \o sorted(after)

list_gz_files_for_day(objects, date_str) ==
  sorted(SelectSeq(list_objects_v2(objects, date_str), EndsWithGz))

(* ----------------------- read_gz_file_from_s3 -------------------------- *)
\* the character U+FFFD that errors="replace" puts for an invalid byte
REPLACEMENT == "?"

\* line.decode("utf-8", errors="replace"): never raises
decode(l) ==
  IF l.enc = "utf8" THEN l
  ELSE [kind |-> l.kind, enc |-> "utf8",
        rec |-> [l.rec EXCEPT !.title = Str(@.v \o <<REPLACEMENT>>)]]

\* json.loads accepts the stripped, non-empty line
IsRecordLine(l) == l.kind = "json"

FirstRejected(text) ==
  IF \E i \in 1..Len(text) : text[i].kind = "bad"
  THEN CHOOSE i \in 1..Len(text) :
         text[i].kind = "bad" /\ \A j \in 1..(i-1) : text[j].kind # "bad"
  ELSE Len(text) + 1

read_gz_file_from_s3_AbortMutant(lines) ==
  LET text == [i \in 1..Len(lines) |-> decode(lines[i])]
      good == SelectSeq(SubSeq(text, 1, FirstRejected(text) - 1), IsRecordLine)
  IN [i \in 1..Len(good) |-> good[i].rec]

\* blank lines are skipped, lines json.loads rejects are skipped with a message
read_gz_file_from_s3(lines) ==
  LET text == [i \in 1..Len(lines) |-> decode(lines[i])]
      good == SelectSeq(text, IsRecordLine)
  IN [i \in 1..Len(good) |-> good[i].rec]

\* obj['Body'] and the GzipFile made with fileobj=gzipped_body
OpenStreams == [body |-> "open", gz |-> "open", myfileobj |-> FALSE]

\* GzipFile.close(), run by the with statement on every exit: it closes the
\* underlying file only when GzipFile opened that file itself
GzipFile_close(s) ==
  [s EXCEPT !.gz = "closed", !.body = IF s.myfileobj THEN "closed" ELSE @]

\* one call of read_gz_file_from_s3 on an archive whose gzip stream is whole
\* or cut short: what it returns or that it raises, and the streams it leaves
read_gz_file_from_s3_call(file) ==
  IF file.truncated
  THEN [raised |-> TRUE, records |-> <<>>, streams |-> GzipFile_close(OpenStreams)]
  ELSE [raised |-> FALSE, records |-> read_gz_file_from_s3(file.lines),
        streams |-> GzipFile_close(OpenStreams)]

(* ------------------------------ the state ------------------------------ *)
VARIABLES
  bucket,                    \* names of the archives a day of the bucket may hold
  start_date, end_date,      \* arguments of load_articles_for_date_range
  current_date,              \* its loop variable
  pc,                        \* position of the run
  keys,                      \* archives of the day still to be read
  pending_batch,             \* process_articles_for_day
  total_inserted, total_duplicates,
  ret,                       \* call site of insert_articles: "mid" or "end"
  documents, retries,        \* insert_articles
  store,                     \* articles collection of each cluster
  log,                       \* etl_log.txt
  fault,                     \* exception that ended the run, or "none"
  monitor,                   \* last dbstats answer and whether the stop warning was printed
  lastFlush,                 \* record of the last insert_articles call
  probe,                     \* last direct call of a function: name, argument, result
  tally                      \* the day so far: ids stored when it began, records
                             \* that passed the filter, whether a write was given up,
                             \* clients that insert_articles made and has not closed,
                             \* records the reader returned, records handed to
                             \* insert_articles

vars == <<bucket, start_date, end_date, current_date, pc, keys, pending_batch,
          total_inserted, total_duplicates, ret, documents, retries, store,
          log, fault, monitor, lastFlush, probe, tally>>

NoFlush ==
  [outcome |-> "none", day |-> 0, shard |-> "cluster1", docs |-> <<>>, pre |-> {},
   rej |-> {}, ins |-> 0, dup |-> 0, attempts |-> 0, timeouts |-> 0]

NoReading == [status |-> "none", storageSize |-> 0, stopping |-> FALSE, client |-> "none"]

NoTally == [pre |-> {}, passed |-> 0, ids |-> {}, abandoned |-> FALSE, open |-> 0,
            read |-> 0, handed |-> 0]

NoProbe == [fn |-> "none", arg |-> <<>>, out |-> <<>>]

Init ==
  /\ start_date \in StartDays
  /\ \/ /\ bucket = RichBucket
        /\ end_date = start_date
     \/ /\ bucket = LeanBucket
        /\ end_date \in (start_date - 1)..(start_date + MaxSpan - 1)
  /\ current_date = start_date
  /\ pc = "loop"
  /\ keys = <<>>
  /\ pending_batch = <<>>
  /\ total_inserted = 0
  /\ total_duplicates = 0
  /\ ret = "end"
  /\ documents = <<>>
  /\ retries = 0
  /\ store = [c \in {"cluster1", "cluster2", "cluster3"} |-> {}]
  /\ log = <<>>
  /\ fault = "none"
  /\ monitor = NoReading
  /\ lastFlush = NoFlush
  /\ probe = NoProbe
  /\ tally = NoTally

Raise(e) == pc' = "fault" /\ fault' = e

(* ------------------------ process_articles_for_day --------------------- *)
\* while current_date <= end_date: ... keys = list_gz_files_for_day(...)
StartDay ==
  /\ pc = "loop"
  /\ current_date <= end_date
  /\ \E n \in 0..MaxFiles : keys' = [i \in 1..n |-> i]
  /\ pending_batch' = <<>>
  /\ total_inserted' = 0
  /\ total_duplicates' = 0
  /\ pc' = "files"
  /\ monitor' = NoReading
  /\ lastFlush' = NoFlush
  /\ tally' = [NoTally EXCEPT !.pre = UNION {Ids(store[c]) : c \in DOMAIN store}]
  /\ UNCHANGED <<probe, bucket, start_date, end_date, current_date, ret, documents, retries,
                 store, log, fault>>

\* the while condition fails: the range is exhausted
Complete ==
  /\ pc = "loop"
  /\ current_date > end_date
  /\ pc' = "completed"
  /\ UNCHANGED <<probe, tally, bucket, start_date, end_date, current_date, keys, pending_batch,
                 total_inserted, total_duplicates, ret, documents, retries,
                 store, log, fault, monitor, lastFlush>>

\* len(pending_batch) >= BATCH_SIZE
BatchFull(batch) == Len(batch) >= BATCH_SIZE

\* one iteration of `for key in keys` up to the call of insert_articles
ReadFile ==
  /\ pc = "files"
  /\ keys # <<>>
  /\ \E name \in bucket :
       LET articles == read_gz_file_from_s3(Archive(name, current_date))
           batch == pending_batch \o articles
       IN /\ pending_batch' = batch
          /\ pc' = IF articles # <<>> /\ BatchFull(batch) THEN "insert" ELSE "files"
  /\ tally' = [tally EXCEPT !.read = @ + Len(pending_batch') - Len(pending_batch)]
  /\ keys' = Tail(keys)
  /\ ret' = "mid"
  /\ UNCHANGED <<probe, bucket, start_date, end_date, current_date, total_inserted,
                 total_duplicates, documents, retries, store, log, fault,
                 monitor, lastFlush>>

\* gzip rejects the object's bytes: the exception leaves the run
ReadFails ==
  /\ pc = "files"
  /\ keys # <<>>
  /\ Raise("BadGzipFile")
  /\ UNCHANGED <<probe, tally, bucket, start_date, end_date, current_date, keys, pending_batch,
                 total_inserted, total_duplicates, ret, documents, retries,
                 store, log, monitor, lastFlush>>

\* after the loop: `if pending_batch:` flushes the remainder
EndFiles ==
  /\ pc = "files"
  /\ keys = <<>>
  /\ pc' = IF pending_batch # <<>> THEN "insert" ELSE "log"
  /\ ret' = "end"
  /\ UNCHANGED <<probe, tally, bucket, start_date, end_date, current_date, keys, pending_batch,
                 total_inserted, total_duplicates, documents, retries, store,
                 log, fault, monitor, lastFlush>>

emptied_KeepMutant(batch) == batch

\* pending_batch = [] after a flush; the remainder flushed at day end is
\* dropped when the function returns
emptied(batch) == <<>>

\* insert_articles returns (ins, dup) to its call site in process_articles_for_day
Return(ins, dup) ==
  /\ total_inserted' = total_inserted + ins
  /\ total_duplicates' = total_duplicates + dup
  /\ pending_batch' = emptied(pending_batch)
  /\ documents' = <<>>
  /\ retries' = 0
  /\ pc' = IF ret = "mid" THEN "files" ELSE "log"

(* ----------------------------- insert_articles ------------------------- *)
\* sets of positions the server may reject for another reason than an id
\* collision
RejectSets(n) == SUBSET (1..(IF n < MaxRejectPos THEN n ELSE MaxRejectPos))

abandoned_counts_OptimisticMutant(docs) == <<Len(docs), 0>>

\* inserted_count = 0, duplicate_count = 0 are never assigned when every
\* attempt times out
abandoned_counts(docs) == <<0, 0>>

\* the preparation loop, then `if documents:`
InsertPrepare ==
  /\ pc = "insert"
  /\ IF PrepareRaises(pending_batch)
     THEN /\ Raise("AttributeError")
          /\ UNCHANGED <<pending_batch, total_inserted, total_duplicates,
                         documents, retries, lastFlush, tally>>
     ELSE LET docs == Prepare(pending_batch)
          IN /\ fault' = fault
             /\ IF docs = <<>>
                THEN /\ Return(0, 0)
                     /\ tally' = [tally EXCEPT !.handed = @ + Len(pending_batch)]
                     /\ lastFlush' = [NoFlush EXCEPT !.outcome = "empty",
                                                      !.day = current_date]
                ELSE /\ pc' = "attempt"
                     /\ documents' = docs
                     /\ tally' = [tally EXCEPT
                                    !.handed = @ + Len(pending_batch),
                                    !.passed = @ + Len(documents'),
                                    !.ids = @ \cup {documents'[i]._id :
                                                      i \in 1..Len(documents')}]
                     /\ retries' = RETRIES
                     /\ lastFlush' = [NoFlush EXCEPT !.outcome = "running",
                                                      !.day = current_date,
                                                      !.docs = docs]
                     /\ UNCHANGED <<pending_batch, total_inserted, total_duplicates>>
  /\ UNCHANGED <<probe, bucket, start_date, end_date, current_date, keys, ret, store, log, monitor>>

\* clients open after get_client_for_date returns MongoClient(uri); nothing
\* in insert_articles closes the client it gets
MongoClient(open) == open + 1

first_date_LastMutant(docs) == docs[Len(docs)].date

\* documents[0]["date"]
first_date(docs) == docs[1].date

\* get_client_for_date(documents[0]["date"]): strptime raises TypeError on
\* None and ValueError on a malformed string; neither is caught
AttemptDateRaises ==
  /\ pc = "attempt"
  /\ first_date(documents).k # "ts"
  /\ Raise("strptime")
  /\ lastFlush' = [lastFlush EXCEPT !.attempts = @ + 1, !.outcome = "raised"]
  /\ UNCHANGED <<probe, tally, bucket, start_date, end_date, current_date, keys, pending_batch,
                 total_inserted, total_duplicates, ret, documents, retries,
                 store, log, monitor>>

\* except ServerSelectionTimeoutError: sleep, retries -= 1; after the loop
\* `if retries == 0` only prints
AttemptTimeout ==
  /\ pc = "attempt"
  /\ first_date(documents).k = "ts"
  /\ IF retries - 1 > 0
     THEN /\ retries' = retries - 1
          /\ lastFlush' = [lastFlush EXCEPT !.attempts = @ + 1, !.timeouts = @ + 1,
                             !.shard = get_client_for_date(first_date(documents).t)]
          /\ tally' = [tally EXCEPT !.open = MongoClient(@)]
          /\ UNCHANGED <<pc, pending_batch, total_inserted, total_duplicates, documents>>
     ELSE LET r == abandoned_counts(documents)
          IN /\ tally' = [tally EXCEPT !.abandoned = TRUE, !.open = MongoClient(@)]
             /\ lastFlush' = [lastFlush EXCEPT !.attempts = @ + 1, !.timeouts = @ + 1,
                                !.shard = get_client_for_date(first_date(documents).t),
                                !.outcome = "abandoned", !.ins = r[1], !.dup = r[2]]
             /\ Return(r[1], r[2])
  /\ UNCHANGED <<probe, bucket, start_date, end_date, current_date, keys, ret,
                 store, log, fault, monitor>>

\* insert_many raises an error that is neither of the two caught ones
\* (OperationFailure: the server refuses the command); nothing is written
AttemptRaises ==
  /\ pc = "attempt"
  /\ first_date(documents).k = "ts"
  /\ Raise("OperationFailure")
  /\ lastFlush' = [lastFlush EXCEPT !.attempts = @ + 1, !.outcome = "raised"]
  /\ tally' = [tally EXCEPT !.open = MongoClient(@)]
  /\ UNCHANGED <<probe, bucket, start_date, end_date, current_date, keys, pending_batch,
                 total_inserted, total_duplicates, ret, documents, retries,
                 store, log, monitor>>

\* insert_many reaches the server: it returns, or raises BulkWriteError
AttemptWrites ==
  /\ pc = "attempt"
  /\ first_date(documents).k = "ts"
  /\ \E rej \in RejectSets(Len(documents)) :
       LET shard == get_client_for_date(first_date(documents).t)
           stored == store[shard]
           ins == NInserted(stored, documents, rej)
           dup == duplicate_count_of(stored, documents, rej)
       IN /\ store' = [store EXCEPT ![shard] = StoredAfter(stored, documents, rej)]
          /\ lastFlush' = [lastFlush EXCEPT
                             !.attempts = @ + 1, !.shard = shard, !.pre = stored,
                             !.rej = rej, !.ins = ins, !.dup = dup,
                             !.outcome = IF dup = 0 THEN "ok" ELSE "bwe"]
          /\ Return(ins, dup)
  /\ tally' = [tally EXCEPT !.open = MongoClient(@)]
  /\ UNCHANGED <<probe, bucket, start_date, end_date, current_date, keys, ret,
                 log, fault, monitor>>

(* --------------------- load_articles_for_date_range -------------------- *)
etl_log_write_TruncateMutant(file, line) == <<line>>

\* open("etl_log.txt", "a") ... write: the line goes after the file's lines
etl_log_write(file, line) == Append(file, line)

\* log_file.write(f"{date_str}: Inserted=..., Duplicates=..., Time=...")
AppendLog ==
  /\ pc = "log"
  /\ log' = etl_log_write(log, [date |-> current_date, inserted |-> total_inserted,
                                duplicates |-> total_duplicates])
  /\ pc' = "quota"
  /\ UNCHANGED <<probe, tally, bucket, start_date, end_date, current_date, keys, pending_batch,
                 total_inserted, total_duplicates, ret, documents, retries,
                 store, fault, monitor, lastFlush>>

\* what db.command("dbstats") may answer
DbstatsAnswers ==
  {[ok |-> TRUE, storageSize |-> s] : s \in Readings}
    \cup {[ok |-> FALSE, storageSize |-> 0]}

check_storage_limit_SwallowMutant(answer) ==
  [raised |-> FALSE, storageSize |-> IF answer.ok THEN answer.storageSize ELSE 0,
   client |-> "closed"]

\* check_storage_limit has no handler: an error of the query leaves it, and
\* client.close() comes after the query
check_storage_limit(answer) ==
  [raised |-> ~answer.ok, storageSize |-> answer.storageSize,
   client |-> IF answer.ok THEN "closed" ELSE "open"]

Halts_AtLeastMutant(storageSize) == storageSize >= HALT_MB * MB

Halts_NeverMutant(storageSize) == FALSE

\* storage_mb > 490, with storage_mb = storageSize / (1024 * 1024)
Halts(storageSize) == storageSize > HALT_MB * MB

AfterCheck_NoBreakMutant(storageSize, date) ==
  [pc |-> "loop", current_date |-> date + 1]

\* `break` when the reading is over the threshold, else current_date += 1
AfterCheck(storageSize, date) ==
  IF Halts(storageSize)
  THEN [pc |-> "halted", current_date |-> date]
  ELSE [pc |-> "loop", current_date |-> date + 1]

QuotaCheck ==
  /\ pc = "quota"
  /\ \E answer \in DbstatsAnswers :
       LET r == check_storage_limit(answer)
       IN IF r.raised
          THEN /\ Raise("dbstats")
               /\ monitor' = [monitor EXCEPT !.status = "error", !.client = r.client]
               /\ UNCHANGED current_date
          ELSE /\ monitor' = [status |-> IF answer.ok THEN "ok" ELSE "error",
                              storageSize |-> r.storageSize,
                              stopping |-> Halts(r.storageSize),
                              client |-> r.client]
               /\ pc' = AfterCheck(r.storageSize, current_date).pc
               /\ current_date' = AfterCheck(r.storageSize, current_date).current_date
               /\ fault' = fault
  /\ UNCHANGED <<probe, tally, bucket, start_date, end_date, keys, pending_batch, total_inserted,
                 total_duplicates, ret, documents, retries, store, log, lastFlush>>

Next ==
  \/ StartDay
  \/ Complete
  \/ ReadFile
  \/ ReadFails
  \/ EndFiles
  \/ InsertPrepare
  \/ AttemptDateRaises
  \/ AttemptTimeout
  \/ AttemptRaises
  \/ AttemptWrites
  \/ AppendLog
  \/ QuotaCheck

Spec == Init /\ [][Next]_vars

(* ------------------- the functions called one by one ------------------- *)
ProbeDays == {D_0101 - 1, D_0101, D_0111, D_0301, D_0302, D_0426, D_0427,
              D_0630, D_0630 + 1, D_1031, D_1031 + 1}
ProbeSecs == {0, 1, LAST_SEC - 1, LAST_SEC}
ProbeTimes == {Ts(d, sec) : d \in ProbeDays, sec \in ProbeSecs}

ProbeLines == {Json(R_tesla(D_0301)), Mangled(R_apple(D_0301)), BadLine, MangledBad,
               BlankLine}
ProbeFiles ==
  {[lines |-> l, truncated |-> t] :
     l \in UNION {[1..n -> ProbeLines] : n \in 0..MaxLines}, t \in BOOLEAN}

ProbeLangs == {Str(ENGLISH), Str(lower(ENGLISH)), Str(<<"F","R","E","N","C","H">>),
               Absent, Null}
ProbeTitles == {Str(T_tesla), Str(<<"x">>), Str(<<>>), Absent, Null}
ProbeUrls == {Str(T_apple), Str(<<"u","2">>), Absent, Null}
ProbeEmbeds == {Str(<<"e">>), Absent, Null}
ProbeRecords ==
  {Rec(l, t, u, DateAt(D_0301, 0), e) :
     l \in ProbeLangs, t \in ProbeTitles, u \in ProbeUrls, e \in ProbeEmbeds}

\* the cluster of the collection get_collection_for_date returns for a
\* calendar date: articles3 from 2024-04-27 on, articles2 from 2024-03-02 on,
\* else articles1
get_collection_for_date(d) ==
  IF d >= D_0427 THEN "cluster3"
  ELSE IF d >= D_0302 THEN "cluster2"
  ELSE "cluster1"

\* the cluster the query layer reads a date from, and the cluster
\* insert_articles resolves for a document dated t on that date
clusters_of_date(t) ==
  [query |-> get_collection_for_date(t.day), writer |-> get_client_for_date(t)]

day_start_NextDayMutant(d) == Ts(d + 1, 0)

\* datetime.strptime(..., "%Y%m%d") and current_date += timedelta(days=1):
\* the loop variable is the midnight that begins day d
day_start(d) == Ts(d, 0)

\* the shard insert_articles resolves for a document dated t, and the shard
\* check_storage_limit(current_date) resolves on the day of t
shards_of_day(t) ==
  [writer |-> get_client_for_date(t),
   monitor |-> db_get_client_for_date(day_start(t.day))]

\* keys a small bucket may hold, in ascending order
ProbeKeys ==
  <<Key(D_0301 - 1, 1, "gz"), Key(D_0301, 1, "gz"), Key(D_0301, 1, "json"),
    Key(D_0301, 2, "gz"), Key(D_0301, 3, "gz"), Key(D_0301 + 1, 1, "gz")>>

\* a day with one key more than a response holds
CrowdedDay == [i \in 1..(S3_MAX_KEYS + 1) |-> Key(D_0301, i, "gz")]

ProbeBuckets ==
  {SelectSeq(ProbeKeys, LAMBDA k : k \in held) :
     held \in SUBSET {ProbeKeys[i] : i \in 1..Len(ProbeKeys)}} \cup {CrowdedDay}

\* the preparation loop of insert_articles on one article
prepare_call(article) ==
  IF PrepareRaises(<<article>>)
  THEN [raised |-> TRUE, documents |-> <<>>]
  ELSE [raised |-> FALSE, documents |-> Prepare(<<article>>)]

runVars == <<bucket, start_date, end_date, current_date, pc, keys, pending_batch,
             total_inserted, total_duplicates, ret, documents, retries, store,
             log, fault, monitor, lastFlush, tally>>

InitCalls ==
  /\ bucket = {}
  /\ start_date = D_0111
  /\ end_date = D_1031
  /\ current_date = D_0111
  /\ pc = "calls"
  /\ keys = <<>>
  /\ pending_batch = <<>>
  /\ total_inserted = 0
  /\ total_duplicates = 0
  /\ ret = "end"
  /\ documents = <<>>
  /\ retries = 0
  /\ store = [c \in {"cluster1", "cluster2", "cluster3"} |-> {}]
  /\ log = <<>>
  /\ fault = "none"
  /\ monitor = NoReading
  /\ lastFlush = NoFlush
  /\ probe = NoProbe
  /\ tally = NoTally

CallRouter ==
  /\ pc = "calls"
  /\ probe = NoProbe
  /\ \E t \in ProbeTimes :
       probe' = [fn |-> "mongo.get_client_for_date", arg |-> t,
                 out |-> get_client_for_date(t)]
  /\ UNCHANGED runVars

CallDbRouter ==
  /\ pc = "calls"
  /\ probe = NoProbe
  /\ \E t \in ProbeTimes :
       probe' = [fn |-> "db.get_client_for_date", arg |-> t,
                 out |-> db_get_client_for_date(t)]
  /\ UNCHANGED runVars

CallReader ==
  /\ pc = "calls"
  /\ probe = NoProbe
  /\ \E file \in ProbeFiles :
       probe' = [fn |-> "read_gz_file_from_s3", arg |-> file,
                 out |-> read_gz_file_from_s3_call(file)]
  /\ UNCHANGED runVars

CallPrepare ==
  /\ pc = "calls"
  /\ probe = NoProbe
  /\ \E article \in ProbeRecords :
       probe' = [fn |-> "insert_articles", arg |-> article,
                 out |-> prepare_call(article)]
  /\ UNCHANGED runVars

CallLister ==
  /\ pc = "calls"
  /\ probe = NoProbe
  /\ \E objects \in ProbeBuckets :
       probe' = [fn |-> "list_gz_files_for_day",
                 arg |-> [objects |-> objects, date_str |-> D_0301],
                 out |-> list_gz_files_for_day(objects, D_0301)]
  /\ UNCHANGED runVars

CallDayShards ==
  /\ pc = "calls"
  /\ probe = NoProbe
  /\ \E t \in ProbeTimes :
       probe' = [fn |-> "check_storage_limit", arg |-> t, out |-> shards_of_day(t)]
  /\ UNCHANGED runVars

CallCollection ==
  /\ pc = "calls"
  /\ probe = NoProbe
  /\ \E t \in ProbeTimes :
       probe' = [fn |-> "get_collection_for_date", arg |-> t, out |-> clusters_of_date(t)]
  /\ UNCHANGED runVars

NextCalls ==
  \/ CallCollection
  \/ CallDayShards
  \/ CallLister
  \/ CallRouter
  \/ CallDbRouter
  \/ CallReader
  \/ CallPrepare

SpecCalls == InitCalls /\ [][NextCalls]_vars

(* ------------------------------ properties ----------------------------- *)
LastLogged == log[Len(log)]

FlushWrote == lastFlush.outcome \in {"ok", "bwe"}

FlushIds == {lastFlush.docs[i]._id : i \in 1..Len(lastFlush.docs)}

\* C1 as stated: after the storage check of a logged day the run has halted at
\* that day exactly when the reading is at least 490 MB, and has otherwise
\* advanced to the next day.
C1_HaltsAtLeast490 ==
  monitor.status = "ok" =>
    /\ (pc = "halted") <=> (monitor.storageSize >= 490 * 1048576)
    /\ current_date = LastLogged.date + (IF pc = "halted" THEN 0 ELSE 1)

\* C1: after the storage check of a logged day the run has halted at that day
\* exactly when the reading is above 490 MB (491 halts), and has otherwise
\* advanced to the next day (490 and 489 do not halt).
C1_HaltsAbove490 ==
  monitor.status = "ok" =>
    /\ (pc = "halted") <=> (monitor.storageSize > 490 * 1048576)
    /\ current_date = LastLogged.date + (IF pc = "halted" THEN 0 ELSE 1)

C1_Witness ==
  /\ monitor.status = "ok"
  /\ monitor.storageSize = 490 * 1048576
  /\ pc = "loop"
  /\ current_date = LastLogged.date + 1

\* C2: once the stop warning has been printed nothing happens any more: no
\* listing, read or write, no log line, no storage check, no change of day.
C2_HaltedIsTerminal ==
  [][monitor.stopping =>
       /\ pc' = pc
       /\ current_date' = current_date
       /\ keys' = keys
       /\ pending_batch' = pending_batch
       /\ store' = store
       /\ log' = log
       /\ monitor' = monitor]_vars

C2_Witness ==
  /\ monitor.stopping
  /\ pc = "halted"
  /\ current_date < end_date
  /\ Len(log) = current_date - start_date + 1

\* C3: no record and no outcome of a write ends the run with an exception:
\* the run never ends by an error raised while preparing or writing a batch.
C3_NoFaultFromRecordsOrWrites ==
  fault \notin {"AttributeError", "strptime", "OperationFailure"}

\* C4 as stated: a write without connectivity failure, all of whose rejections
\* are id collisions, returns inserted = n - k and duplicate = k, k being the
\* number of documents whose id the shard already held.
C4_CountsAgainstStoredIds ==
  (FlushWrote /\ lastFlush.timeouts = 0 /\ lastFlush.rej = {}) =>
    LET n == Len(lastFlush.docs)
        k == Cardinality({i \in 1..n : lastFlush.docs[i]._id \in Ids(lastFlush.pre)})
    IN lastFlush.ins = n - k /\ lastFlush.dup = k

\* C4: a write without connectivity failure, all of whose rejections are id
\* collisions, returns inserted = the number of distinct ids of the batch that
\* the shard did not hold, and duplicate = n - inserted; the shard grows by
\* exactly the inserted documents.
C4_CountsAgainstDistinctNewIds ==
  (FlushWrote /\ lastFlush.timeouts = 0 /\ lastFlush.rej = {}) =>
    LET n == Len(lastFlush.docs)
        fresh == FlushIds \ Ids(lastFlush.pre)
    IN /\ lastFlush.ins = Cardinality(fresh)
       /\ lastFlush.dup = n - Cardinality(fresh)
       /\ lastFlush.ins + lastFlush.dup = n
       /\ Ids(store[lastFlush.shard]) = Ids(lastFlush.pre) \cup fresh

C4_Witness ==
  /\ FlushWrote /\ lastFlush.timeouts = 0 /\ lastFlush.rej = {}
  /\ FlushIds \cap Ids(lastFlush.pre) # {}
  /\ lastFlush.ins > 0
  /\ lastFlush.dup > 0

\* C5: no shard holds two documents with one id, and a write all of whose
\* documents carry ids the shard already holds reports inserted = 0 and
\* duplicate = n (0 and 1 for a single record) and leaves the shard as it was.
C5_ReinsertionIsIdempotent ==
  /\ \A c \in DOMAIN store : \A d1, d2 \in store[c] : d1._id = d2._id => d1 = d2
  /\ (FlushWrote /\ FlushIds \subseteq Ids(lastFlush.pre)) =>
       /\ lastFlush.ins = 0
       /\ lastFlush.dup = Len(lastFlush.docs)
       /\ store[lastFlush.shard] = lastFlush.pre

C5_Witness ==
  /\ FlushWrote
  /\ Len(lastFlush.docs) = 1
  /\ lastFlush.docs[1] \in lastFlush.pre
  /\ lastFlush.ins = 0
  /\ lastFlush.dup = 1
  /\ store[lastFlush.shard] = lastFlush.pre

AllDocs == UNION {store[c] : c \in DOMAIN store}
             \cup {lastFlush.docs[i] : i \in 1..Len(lastFlush.docs)}

\* C6: documents with the same (non-empty) url have the same id whatever
\* their other fields, and documents without url have the same id when their
\* titles agree.
C6_IdIsFunctionOfUrl ==
  \A d1, d2 \in AllDocs :
    /\ (Truthy(d1.url) /\ d1.url = d2.url) => d1._id = d2._id
    /\ (~Truthy(d1.url) /\ ~Truthy(d2.url) /\ Truthy(d1.title) /\ d1.title = d2.title)
         => d1._id = d2._id
    /\ (Truthy(d1.url) /\ Truthy(d2.url) /\ d1.url # d2.url) => d1._id # d2._id

C6_Witness ==
  /\ \E i, j \in 1..Len(lastFlush.docs) :
       /\ Truthy(lastFlush.docs[i].url)
       /\ lastFlush.docs[i].url = lastFlush.docs[j].url
       /\ lastFlush.docs[i].title # lastFlush.docs[j].title
       /\ lastFlush.docs[i]._id = lastFlush.docs[j]._id
  /\ \E i \in 1..Len(lastFlush.docs) :
       /\ ~Truthy(lastFlush.docs[i].url)
       /\ lastFlush.docs[i]._id = md5(lastFlush.docs[i].title.v)

\* C7: a flush makes at most 3 attempts, every attempt but the last one made
\* is a connectivity failure, and a flush that wrote after k failures reports
\* the counts of that one write.
C7_RetryBudget ==
  /\ lastFlush.attempts <= 3
  /\ lastFlush.timeouts <= lastFlush.attempts
  /\ lastFlush.attempts - lastFlush.timeouts <= 1
  /\ lastFlush.outcome = "running" =>
       lastFlush.attempts = lastFlush.timeouts /\ lastFlush.timeouts < 3
  /\ FlushWrote =>
       /\ lastFlush.attempts = lastFlush.timeouts + 1
       /\ lastFlush.ins = Cardinality(Ids(store[lastFlush.shard]) \ Ids(lastFlush.pre))
       /\ lastFlush.ins + lastFlush.dup = Len(lastFlush.docs)
  /\ lastFlush.outcome = "abandoned" => lastFlush.timeouts = 3

C7_Witness ==
  /\ FlushWrote
  /\ lastFlush.timeouts = 2
  /\ lastFlush.attempts = 3
  /\ lastFlush.ins > 0

\* C8: the third connectivity failure of a flush returns (0, 0): the day's
\* totals and the shards stay as they were, and the run goes on with the next
\* archive or the day's log line, without halting and without an exception.
C8_AbandonedBatchIsSkipped ==
  [][(pc = "attempt" /\ lastFlush'.outcome = "abandoned") =>
       /\ lastFlush'.timeouts = 3
       /\ lastFlush'.ins = 0
       /\ lastFlush'.dup = 0
       /\ total_inserted' = total_inserted
       /\ total_duplicates' = total_duplicates
       /\ store' = store
       /\ pc' = (IF ret = "mid" THEN "files" ELSE "log")
       /\ fault' = "none"]_vars

C8_Witness ==
  /\ lastFlush.outcome = "abandoned"
  /\ pc = "loop"
  /\ current_date = lastFlush.day + 1
  /\ LastLogged = [date |-> lastFlush.day, inserted |-> 0, duplicates |-> 0]

\* C9: the duplicate count a write returns is the number of its documents
\* rejected because their id was already present.
C9_DuplicatesAreIdCollisions ==
  FlushWrote =>
    lastFlush.dup = Cardinality(DupKeyErrors(lastFlush.pre, lastFlush.docs, lastFlush.rej))

\* C10: when the storage query fails the run ends with that error at the day
\* just logged; it does not go on to the next day.
C10_QueryFailureStopsTheRun ==
  monitor.status = "error" =>
    /\ pc = "fault"
    /\ fault = "dbstats"
    /\ current_date = LastLogged.date

C10_Witness ==
  /\ monitor.status = "error"
  /\ pc = "fault"
  /\ current_date < end_date
  /\ current_date = LastLogged.date

\* C11: the log holds one line per finished day of the run, the halting day
\* included, in strictly increasing date order, and a step either leaves the
\* log alone or puts one line after its lines.
C11_LogIsAppendOnlyAndOrdered ==
  /\ [](/\ \A i \in 1..Len(log) : log[i].date = start_date + i - 1
        /\ \A i \in 1..(Len(log) - 1) : log[i].date < log[i+1].date
        /\ Len(log) = current_date - start_date
                        + (IF pc \in {"quota", "halted"} \/ fault = "dbstats" THEN 1 ELSE 0))
  /\ [][\/ log' = log
        \/ /\ pc = "log"
           /\ Len(log') = Len(log) + 1
           /\ SubSeq(log', 1, Len(log)) = log]_vars

C11_Witness ==
  /\ Len(log) = 2
  /\ log[1].date < log[2].date
  /\ pc = "halted"
  /\ current_date = log[2].date

\* C12: a run whose external calls all return ends completed or halted: it
\* does not end by an error raised by the pipeline's own code; a completed
\* run has logged every day of the range once, in calendar order, and none
\* when start_date > end_date.
C12_RunEndsCompletedOrHalted ==
  /\ pc = "fault" => fault \in {"BadGzipFile", "OperationFailure", "dbstats"}
  /\ pc = "completed" =>
       /\ Len(log) = (IF start_date > end_date THEN 0 ELSE end_date - start_date + 1)
       /\ \A i \in 1..Len(log) : log[i].date = start_date + i - 1

\* C16: no call of insert_many carries more than 500 documents.
C16_WriteWithinBatchSize ==
  pc = "attempt" => Len(documents) <= BATCH_SIZE

Routed == probe.fn \in {"mongo.get_client_for_date", "db.get_client_for_date"}

\* seconds of a timestamp since the start of the day before 2024-01-01
Seconds(t) == t.day * (LAST_SEC + 1) + t.sec

\* the positions in the configured order of the windows that hold t, bounds included
WindowsHolding(t) ==
  {i \in 1..Len(ClusterNames) :
     /\ Seconds(CLUSTERS[ClusterNames[i]].start_date) <= Seconds(t)
     /\ Seconds(t) <= Seconds(CLUSTERS[ClusterNames[i]].end_date)}

\* C13: get_client_for_date, in mongo.ipynb and in db.ipynb, returns for a
\* timestamp inside a shard window (bounds inclusive) the first shard in the
\* configured order whose window holds it, and cluster1 for a timestamp
\* outside every window.
C13_RoutingCorrect ==
  Routed =>
    LET holding == WindowsHolding(probe.arg)
    IN IF holding = {}
       THEN probe.out = "cluster1"
       ELSE \E i \in holding :
              /\ \A j \in holding : i <= j
              /\ probe.out = ClusterNames[i]

C13_Witness ==
  /\ probe.fn = "mongo.get_client_for_date"
  /\ probe.arg = Ts(D_0426, LAST_SEC)
  /\ probe.out = "cluster2"

\* C14: every timestamp from 2024-01-11 to 2024-10-31, the range of the main
\* entry point, lies in exactly one configured shard window.
C14_WindowsCoverTheRange ==
  (Routed /\ probe.arg.day \in D_0111..D_1031) =>
    Cardinality(WindowsHolding(probe.arg)) = 1

Prepared == probe.fn = "insert_articles"

\* field f is a text that contains a configured keyword, letter case ignored
HasKeyword(f) ==
  /\ f.k = "str"
  /\ \E i \in 1..Len(KEYWORDS) : Contains(KEYWORDS[i], lower(f.v))

IsEnglish(article) == article.lang = Str(ENGLISH)

\* C15: a record whose language is not exactly ENGLISH is never written; an
\* ENGLISH record with no keyword in title and url is never written; an
\* ENGLISH record with a keyword in title or url is always submitted for
\* writing.
C15_FilterCorrect ==
  Prepared =>
    /\ ~IsEnglish(probe.arg) => probe.out.documents = <<>>
    /\ (/\ IsEnglish(probe.arg)
        /\ ~HasKeyword(probe.arg.title)
        /\ ~HasKeyword(probe.arg.url)) => probe.out.documents = <<>>
    /\ (/\ IsEnglish(probe.arg)
        /\ HasKeyword(probe.arg.title) \/ HasKeyword(probe.arg.url)) =>
         /\ ~probe.out.raised
         /\ Len(probe.out.documents) = 1

\* the two rejecting parts of C15 alone
FilterRejects ==
  Prepared =>
    /\ ~IsEnglish(probe.arg) => probe.out.documents = <<>> /\ ~probe.out.raised
    /\ (/\ IsEnglish(probe.arg)
        /\ ~HasKeyword(probe.arg.title)
        /\ ~HasKeyword(probe.arg.url)) => probe.out.documents = <<>>

\* a call of the reader on an archive whose gzip stream is whole
ReadWhole == probe.fn = "read_gz_file_from_s3" /\ ~probe.arg.truncated

\* the number of the positions up to i that are in the set kept
Rank(kept, i) == Cardinality({j \in kept : j <= i})

\* the lines that are valid UTF-8 and valid JSON
WellFormedLines(lines) ==
  {i \in 1..Len(lines) : lines[i].kind = "json" /\ lines[i].enc = "utf8"}

\* the lines that json.loads accepts once invalid bytes are replaced
ParsedLines(lines) == {i \in 1..Len(lines) : lines[i].kind = "json"}

C19_BodyIsClosed ==
  probe.fn = "read_gz_file_from_s3" => probe.out.streams.body = "closed"

\* a record with title, url or embedding missing and neither title nor url null
MissingOptional(article) ==
  /\ Absent \in {article.title, article.url, article.docembed}
  /\ Null \notin {article.title, article.url}

\* C20: for a record whose title, url or embedding key is missing, the
\* preparation never raises: it gives no document or one document, whose
\* embedding is empty when the record had none.
C20_MissingFieldsNeverRaise ==
  (Prepared /\ MissingOptional(probe.arg)) =>
    /\ ~probe.out.raised
    /\ \/ probe.out.documents = <<>>
       \/ /\ Len(probe.out.documents) = 1
          /\ probe.arg.docembed = Absent =>
               probe.out.documents[1].docembed = Str(<<>>)

C20_Witness ==
  /\ Prepared
  /\ probe.arg.title = Absent
  /\ probe.arg.docembed = Absent
  /\ Len(probe.out.documents) = 1
  /\ probe.out.documents[1].docembed = Str(<<>>)

\* C17: for a day on which no write is given up, the line logged for the day
\* has inserted = the number of distinct ids, among the day's records that
\* pass the filter, that no shard held when the day began, and duplicates =
\* the number of the other records that pass the filter (3 valid lines and a
\* malformed one, then 2 repeats of those lines: inserted 3, duplicates 2).
C17_DayAccounting ==
  (pc = "quota" /\ ~tally.abandoned) =>
    LET fresh == tally.ids \ tally.pre
    IN /\ LastLogged.date = current_date
       /\ LastLogged.inserted = Cardinality(fresh)
       /\ LastLogged.duplicates = tally.passed - Cardinality(fresh)

Listed == probe.fn = "list_gz_files_for_day"

\* the keys of the bucket under the day's prefix that end with .gz
DayArchives ==
  {probe.arg.objects[i] : i \in {j \in 1..Len(probe.arg.objects) :
      /\ probe.arg.objects[j].day = probe.arg.date_str
      /\ probe.arg.objects[j].ext = "gz"}}

\* C21: list_gz_files_for_day returns exactly the keys of the bucket under
\* the day's prefix that end with .gz, each once, in ascending order, and the
\* empty sequence when there is none.
C21_ListsExactlyTheDayArchives ==
  Listed =>
    /\ Len(probe.out) = Cardinality(DayArchives)
    /\ \A i \in 1..Len(probe.out) : probe.out[i] \in DayArchives
    /\ \A i \in 1..(Len(probe.out) - 1) :
         KeyLE(probe.out[i], probe.out[i+1]) /\ probe.out[i] # probe.out[i+1]

\* the same for a day with at most S3_MAX_KEYS keys under its prefix
ListsSmallDays ==
  (Listed /\ Len(probe.arg.objects) <= S3_MAX_KEYS) =>
    /\ Len(probe.out) = Cardinality(DayArchives)
    /\ \A i \in 1..Len(probe.out) : probe.out[i] \in DayArchives
    /\ \A i \in 1..(Len(probe.out) - 1) :
         KeyLE(probe.out[i], probe.out[i+1]) /\ probe.out[i] # probe.out[i+1]

\* the shard whose window holds t, cluster1 when none does
ShardFor(t) ==
  IF WindowsHolding(t) = {} THEN "cluster1"
  ELSE ClusterNames[CHOOSE i \in WindowsHolding(t) : \A j \in WindowsHolding(t) : i <= j]

\* C22: every attempt of a flush resolves the shard from the date of the first
\* document of the batch, so a retry resolves the shard of the attempt before
\* it, and an attempt that writes changes that shard only, by documents of
\* the batch.
C22_OneShardPerFlush ==
  [][(/\ pc = "attempt"
      /\ lastFlush'.attempts = lastFlush.attempts + 1
      /\ lastFlush'.outcome # "raised") =>
        LET shard == ShardFor(documents[1].date.t)
        IN /\ lastFlush'.shard = shard
           /\ lastFlush.attempts > 0 => lastFlush.shard = shard
           /\ \A c \in DOMAIN store : c # shard => store'[c] = store[c]
           /\ store'[shard] \ store[shard]
                \subseteq {documents[i] : i \in 1..Len(documents)}]_vars

C22_Witness ==
  /\ FlushWrote
  /\ lastFlush.timeouts > 0
  /\ Len(lastFlush.docs) = 2
  /\ ShardFor(lastFlush.docs[1].date.t) # ShardFor(lastFlush.docs[2].date.t)
  /\ lastFlush.shard = ShardFor(lastFlush.docs[1].date.t)
  /\ \A i \in 1..2 : lastFlush.docs[i] \in store[lastFlush.shard]

\* every document of the batch carries a date within the day being processed
BatchOfTheDay ==
  \A i \in 1..Len(documents) :
    documents[i].date.k = "ts" /\ documents[i].date.t.day = current_date

\* C23: when every document of a batch carries a date within the day being
\* processed, each document the write stores goes to the shard that the
\* router returns for that document's own date.
C23_ShardPurity ==
  [][(pc = "attempt" /\ BatchOfTheDay) =>
       \A c \in DOMAIN store :
         \A d \in store'[c] \ store[c] : c = ShardFor(d.date.t)]_vars

C23_Witness ==
  /\ FlushWrote
  /\ lastFlush.shard = "cluster3"
  /\ Len(lastFlush.docs) = 3
  /\ \A i \in 1..3 :
       /\ lastFlush.docs[i].date.t.day = lastFlush.day
       /\ lastFlush.docs[i] \in store[ShardFor(lastFlush.docs[i].date.t)]
  /\ lastFlush.docs[1].date.t.sec # lastFlush.docs[2].date.t.sec

\* the positions a run may pass through, in the order of one day
DaySteps ==
  {<<"loop", "files">>, <<"loop", "completed">>,
   <<"files", "files">>, <<"files", "insert">>, <<"files", "log">>, <<"files", "fault">>,
   <<"insert", "attempt">>, <<"insert", "files">>, <<"insert", "log">>, <<"insert", "fault">>,
   <<"attempt", "attempt">>, <<"attempt", "files">>, <<"attempt", "log">>, <<"attempt", "fault">>,
   <<"log", "quota">>,
   <<"quota", "loop">>, <<"quota", "halted">>, <<"quota", "fault">>}

\* one step keeps the order of a day: writes happen only in a flush, the one
\* line of the day is appended after the last flush and before the quota
\* check, and the next day begins only after a quota check whose reading
\* allows it (strictly below the threshold, or not above it)
DayInOrder(strictly) ==
  LET allows(size) == IF strictly THEN size < HALT_MB * MB ELSE size <= HALT_MB * MB
  IN /\ <<pc, pc'>> \in DaySteps
     /\ store' # store => pc = "attempt"
     /\ pc \in {"files", "insert", "attempt"} => Len(log) = current_date - start_date
     /\ log' # log =>
          /\ pc = "log"
          /\ Len(log') = Len(log) + 1
          /\ log'[Len(log')].date = current_date
     /\ monitor'.status = "ok" /\ monitor.status # "ok" => pc = "quota"
     /\ current_date' # current_date =>
          /\ pc = "quota"
          /\ current_date' = current_date + 1
          /\ Len(log) = current_date' - start_date
          /\ monitor'.status = "ok"
          /\ allows(monitor'.storageSize)
     /\ (pc = "loop" /\ pc' = "files" /\ current_date > start_date) =>
          /\ monitor.status = "ok"
          /\ allows(monitor.storageSize)
          /\ LastLogged.date = current_date - 1

\* C24 as stated: the flushes of a day, then one line of the log, then one
\* quota check; day d+1 begins only after the quota check of day d has
\* returned a reading below the threshold of 490 MB.
C24_NextDayAfterReadingBelow == [][DayInOrder(TRUE)]_vars

\* C24: the flushes of a day, then one line of the log, then one quota
\* check; day d+1 begins only after the quota check of day d has returned a
\* reading that is not above 490 MB.
C24_NextDayAfterReadingNotAbove == [][DayInOrder(FALSE)]_vars

C24_Witness ==
  /\ pc = "files"
  /\ current_date = start_date + 1
  /\ Len(log) = 1
  /\ LastLogged.date = start_date
  /\ LastLogged.inserted > 0

\* C25: after a flush attempt or a quota check has ended, by success or by
\* failure, the client it opened is closed.
C25_NoClientStaysOpen ==
  /\ tally.open = 0
  /\ monitor.client # "open"

\* the part of C25 that holds: a quota check whose query answers closes its client
QuotaCheckCloses == monitor.status = "ok" => monitor.client = "closed"

\* C26: for every timestamp of a calendar day, the shard the writer resolves
\* for the timestamp is the shard whose usage the quota check of that day
\* reads, days outside all windows included.
C26_MonitorReadsTheWritersShard ==
  probe.fn = "check_storage_limit" =>
    /\ probe.out.writer = probe.out.monitor
    /\ probe.out.monitor = ShardFor(probe.arg)

C26_Witness ==
  /\ probe.fn = "check_storage_limit"
  /\ probe.arg = Ts(D_0302, LAST_SEC)
  /\ probe.out = [writer |-> "cluster2", monitor |-> "cluster2"]

\* no day is being processed: before a day, or after process_articles_for_day
\* returned
BetweenDays == pc \in {"loop", "log", "quota", "halted", "completed"}

\* C27: every record the reader returns for a day is handed to
\* insert_articles in exactly one call, in file and line order: a read puts
\* the records of one archive at the end of the pending batch, a call takes
\* the whole pending batch, which is emptied after it, and the pending batch
\* is empty when a day begins and when it has returned.
C27_BatchingKeepsEveryRecordOnce ==
  /\ [](/\ tally.handed <= tally.read
        /\ pc \in {"files", "insert"} => tally.read = tally.handed + Len(pending_batch)
        /\ BetweenDays => pending_batch = <<>> /\ tally.read = tally.handed)
  /\ [][/\ pending_batch' # pending_batch =>
             \/ /\ pc = "files"
                /\ \E name \in bucket :
                     pending_batch' =
                       pending_batch \o read_gz_file_from_s3(Archive(name, current_date))
             \/ /\ pc \in {"insert", "attempt"}
                /\ pending_batch' = <<>>
        /\ (pc = "insert" /\ pc' = "attempt") =>
             /\ tally'.handed = tally.handed + Len(pending_batch)
             /\ Len(documents') <= Len(pending_batch)
             /\ \A i \in 1..Len(documents') :
                  \E j \in i..Len(pending_batch) : documents'[i].url = pending_batch[j].url
        /\ (pc = "loop" /\ pc' = "files") =>
             pending_batch' = <<>> /\ tally'.read = 0 /\ tally'.handed = 0]_vars

C27_Witness ==
  /\ pc = "log"
  /\ tally.read > BATCH_SIZE
  /\ tally.read = tally.handed
  /\ tally.passed < tally.read
  /\ pending_batch = <<>>

\* C28: the line logged for a day has inserted + duplicates at most the
\* number of the day's records that pass the filter: exactly that number when
\* no flush of the day was given up, and less when one was.
C28_LoggedSumIsThePassingRecords ==
  /\ total_inserted + total_duplicates <= tally.passed
  /\ pc = "quota" =>
       /\ LastLogged.date = current_date
       /\ LastLogged.inserted + LastLogged.duplicates <= tally.passed
       /\ ~tally.abandoned =>
            LastLogged.inserted + LastLogged.duplicates = tally.passed
       /\ tally.abandoned =>
            LastLogged.inserted + LastLogged.duplicates < tally.passed

C28_Witness ==
  /\ pc = "quota"
  /\ ~tally.abandoned
  /\ lastFlush.rej # {}
  /\ LastLogged.inserted > 0
  /\ LastLogged.duplicates > 0
  /\ LastLogged.inserted + LastLogged.duplicates = tally.passed

\* C29: for every calendar date, get_collection_for_date selects the cluster
\* that the writer's get_client_for_date resolves for the timestamps of that
\* date, dates before the first window and after the last one included.
C29_QueryReadsTheWritersCluster ==
  probe.fn = "get_collection_for_date" => probe.out.query = probe.out.writer

\* the same up to the end of the last window
QueryAgreesInsideTheWindows ==
  (probe.fn = "get_collection_for_date" /\ probe.arg.day <= D_0630) =>
    probe.out.query = probe.out.writer
====
